---- MODULE Spec2Model ----
(***************************************************************************)
(* Tracki: offline-first sale capture and synchronisation.                 *)
(*                                                                         *)
(* The model covers the RecordSale page (capture handler and the sync      *)
(* effect), the offline service over IndexedDB (storeSaleOffline,          *)
(* getPendingSales, markSaleAsSynced, deleteSyncedSales, syncPendingSales),*)
(* the Firestore addSale write and the tax calculator.                     *)
(*                                                                         *)
(* Money is fixed-point: one currency unit is 100000 model units,          *)
(* so that a price with three fractional digits times a whole-percent VAT  *)
(* rate is an exact integer.  VAT rates are whole percents (18 = 0.18).    *)
(***************************************************************************)
EXTENDS Integers, Sequences, FiniteSets, Bags, TLC

\* ------------------------------------------------------------------ bounds
\* Number of captures (handleRecordSale submissions) in a behaviour.
MaxSales == 2
\* Number of syncPendingSales invocations that can be in flight at once.
MaxRuns == 2
\* Number of environment events in a behaviour: a reload in the middle of a
\* run, a lost acknowledgment of a Firestore write, an IndexedDB request
\* error, IndexedDB becoming unavailable, a failed load of the business, an
\* edit of a VAT rate, another user signing in.  Connectivity changes and
\* rejected Firestore writes are not counted.
MaxEvents == 1
\* Number of syncPendingSales invocations in a behaviour of Spec.
MaxSyncs == 2
\* Number of records the object store holds when StoreSpec starts.
MaxQueue == 2
\* Number of direct calls of the offline service in a behaviour of StoreSpec.
MaxCalls == 3
\* Number of acceptInvitation calls in a behaviour of InviteSpec.
MaxAccepts == 3
\* Time, in minutes of the scale below, a behaviour of InactivitySpec lasts.
MaxTicks == 6

Businesses == {1, 2}
Users == {1, 2}
\* rraVatRate values a business can carry, in percent.
Rates == {0, 10}
\* The price the form is given, 1.005, and the quantities.
Prices == {100500}
Quantities == {1, 2}
PaymentMethods == {"Cash"}
Runs == 1..MaxRuns

\* ------------------------------------------------------------- tax engine
DefaultVatRate == 18
Cent == 1000

\* Number.prototype.toFixed(2) read back with parseFloat: the nearest
\* hundredth.  At an exact tie in decimal the double decides (1.005 is below
\* the tie, 8.345 above); the amounts the model rounds are chosen off the
\* ties, where this formula and the double agree, negative amounts included.
toFixed2(x) == ((x + (Cent \div 2)) \div Cent) * Cent

\* What a bug would make of calculateTax: the total is cut to the hundredth
\* below instead of rounded.
calculateTax_Floor(subtotal, vatRate) ==
    LET vatAmount == (subtotal * vatRate) \div 100
        total == subtotal + vatAmount
    IN  [subtotal |-> toFixed2(subtotal),
         vatAmount |-> toFixed2(vatAmount),
         total |-> (total \div Cent) * Cent]

calculateTax(subtotal, vatRate) ==
    LET vatAmount == (subtotal * vatRate) \div 100
        total == subtotal + vatAmount
    IN  [subtotal |-> toFixed2(subtotal),
         vatAmount |-> toFixed2(vatAmount),
         total |-> toFixed2(total)]

RECURSIVE SumItems(_)
\* items.reduce((sum, item) => sum + item.pricePerItem * item.quantity, 0)
SumItems(items) ==
    IF items = <<>> THEN 0
    ELSE SumItems(SubSeq(items, 1, Len(items) - 1))
         + items[Len(items)].pricePerItem * items[Len(items)].quantity

\* ------------------------------------------------------------------ state
VARIABLES
    online,             \* navigator.onLine
    idbAvailable,       \* whether indexedDB.open can succeed
    db,                 \* the cached IndexedDB handle is set
    queue,              \* the pendingSales object store, in key order
    nextId,             \* source of the offline-<time>-<random> ids
    sales,              \* the Firestore sales collection, a bag of documents
    businesses,         \* the Firestore businesses collection: rraVatRate
    user,               \* the signed-in user, 0 when nobody is
    selectedBusinessId, \* RecordSale state, 0 when not set
    vatRate,            \* RecordSale state
    runs,               \* the syncPendingSales invocations
    toast,              \* the last notification shown
    nCaptures,          \* captures made so far
    nEvents,            \* environment events so far
    nSyncs,             \* syncPendingSales invocations so far
    appended,           \* the records the object store ever held: local id
                        \* |-> rraVatRate of the business at the capture
    form,               \* RecordSale state: the fields of the form
    call,               \* the last direct call of an offline service function
    taxCall,            \* the last direct call of calculateTax
    invitation,         \* the Firestore document of an invitation
    userDocs,           \* the Firestore users collection
    salesRepIds,        \* salesRepIds of the invitation's business
    accepts,            \* the acceptInvitation calls
    inactivity          \* useInactivity: its timers, state and toast

vars == <<online, idbAvailable, db, queue, nextId, sales, businesses, user,
          selectedBusinessId, vatRate, runs, toast, nCaptures, nEvents,
          nSyncs, appended, form, call, taxCall, invitation, userDocs,
          salesRepIds, accepts, inactivity>>

\* The calls made from outside the page and the form fields, which the
\* steps of the page and of the sync leave alone.
direct ==
    <<call, taxCall, invitation, userDocs, salesRepIds, accepts, inactivity>>

\* The onboarding and the session, which the sale pages leave alone.
aside == <<invitation, userDocs, salesRepIds, accepts, inactivity>>

IdleRun ==
    [pc |-> "idle", businessId |-> 0, uid |-> 0, pending |-> <<>>, i |-> 0,
     synced |-> 0, failed |-> 0, result |-> [synced |-> 0, failed |-> 0],
     attempted |-> <<>>, outcomes |-> <<>>, salesAtStart |-> 0,
     nextIdAtList |-> 0, overlapped |-> FALSE, fault |-> FALSE,
     wasOnline |-> FALSE]

\* useState(''), useState(''), useState(1), useState('Cash'), useState('')
EmptyForm ==
    [productName |-> "", price |-> "", quantity |-> "1",
     paymentMethod |-> "Cash", customPaymentMethod |-> ""]

NoCall ==
    [op |-> "none", n |-> 0, arg |-> 0, opened |-> FALSE, status |-> "none",
     before |-> <<>>, result |-> <<>>]

NoTax ==
    [subtotal |-> 0, vatRate |-> 0, status |-> "none",
     result |-> [subtotal |-> 0, vatAmount |-> 0, total |-> 0]]

\* No invitation document; a users document that does not exist.
NoInvitation ==
    [exists |-> FALSE, status |-> "none", businessId |-> 0, acceptedBy |-> 0,
     version |-> 0]

NoUserDoc == [exists |-> FALSE, businessId |-> 0, role |-> "none"]

\* The acceptInvitation calls the model follows.
Accepts == 1..MaxAccepts

NoAccept ==
    [pc |-> "idle", userId |-> 0, attempts |-> 0, seen |-> NoInvitation,
     result |-> "none"]

\* timeoutRef.current and warningTimeoutRef.current without a pending timer.
NoTimer == -1

\* useInactivity with nobody signed in: no timer, no warning.
SignedOut ==
    [timeout |-> NoTimer, warningTimeout |-> NoTimer, showWarning |-> FALSE,
     toastLeft |-> 0, quiet |-> 0, warned |-> FALSE, loggingOut |-> FALSE,
     clock |-> 0]

\* No onboarding in progress and nobody watched for inactivity.
AsideInit ==
    /\ invitation = NoInvitation
    /\ userDocs = [u \in Users |-> NoUserDoc]
    /\ salesRepIds = {}
    /\ accepts = [c \in Accepts |-> NoAccept]
    /\ inactivity = SignedOut

\* The page mounted, nothing stored, nobody selected yet.
Mounted ==
    /\ online = TRUE
    /\ idbAvailable = TRUE
    /\ db = FALSE
    /\ queue = <<>>
    /\ nextId = 1
    /\ sales = EmptyBag
    /\ businesses = [b \in Businesses |-> 10]
    /\ user = 1
    /\ selectedBusinessId = 0
    /\ vatRate = DefaultVatRate
    /\ runs = [r \in Runs |-> IdleRun]
    /\ toast = "none"
    /\ nCaptures = 0
    /\ nEvents = 0
    /\ nSyncs = 0
    /\ appended = <<>>

Init ==
    /\ Mounted
    /\ form = EmptyForm
    /\ call = NoCall
    /\ taxCall = NoTax
    /\ AsideInit

\* ---------------------------------------------------------- environment
GoOnline ==
    /\ ~online
    /\ online' = TRUE
    /\ UNCHANGED <<idbAvailable, db, queue, nextId, sales, businesses, user,
                   selectedBusinessId, vatRate, runs, toast, nCaptures,
                   nEvents, appended, nSyncs>>
    /\ UNCHANGED <<form, direct>>

GoOffline ==
    /\ online
    /\ online' = FALSE
    /\ UNCHANGED <<idbAvailable, db, queue, nextId, sales, businesses, user,
                   selectedBusinessId, vatRate, runs, toast, nCaptures,
                   nEvents, appended, nSyncs>>
    /\ UNCHANGED <<form, direct>>

\* The VAT rate of a business is edited (Settings page, any device).
UpdateBusiness(b, rate) ==
    /\ businesses[b] # rate
    /\ nEvents < MaxEvents
    /\ nEvents' = nEvents + 1
    /\ businesses' = [businesses EXCEPT ![b] = rate]
    /\ UNCHANGED <<online, idbAvailable, db, queue, nextId, sales, user,
                   selectedBusinessId, vatRate, runs, toast, nCaptures,
                   appended, nSyncs>>
    /\ UNCHANGED <<form, direct>>

\* IndexedDB becomes unavailable or available again.  Once the handle is
\* cached initDB never opens the database again, so only the time before the
\* first open matters.
SetIdbAvailable(v) ==
    /\ ~db
    /\ idbAvailable # v
    /\ v \/ nEvents < MaxEvents
    /\ nEvents' = IF v THEN nEvents ELSE nEvents + 1
    /\ idbAvailable' = v
    /\ UNCHANGED <<online, db, queue, nextId, sales, businesses, user,
                   selectedBusinessId, vatRate, runs, toast, nCaptures,
                   appended, nSyncs>>
    /\ UNCHANGED <<form, direct>>

\* --------------------------------------------------------- offline service
isOnline == online

\* What a bug would make of initDB: request.onerror resolves like onsuccess.
initDBResolves_Always == TRUE

\* initDB resolves when the handle is cached or the database can be opened.
initDBResolves == db \/ idbAvailable

\* The record storeSaleOffline builds around the sale data.
saleRecord(saleData, id) ==
    [id |-> id, synced |-> FALSE,
     businessId |-> saleData.businessId,
     recordedByUserId |-> saleData.recordedByUserId,
     items |-> saleData.items,
     paymentMethod |-> saleData.paymentMethod,
     subtotal |-> saleData.subtotal,
     vatAmount |-> saleData.vatAmount,
     total |-> saleData.total]

\* What a bug would make of getPendingSales: the index is read with the key
\* of deleteSyncedSales, getAll(true).
getPendingSales_Synced(q, businessId) ==
    SelectSeq(q, LAMBDA s : s.synced
                            /\ (businessId # 0 => s.businessId = businessId))

\* What a bug would make of getPendingSales: the business filter is missing.
getPendingSales_NoFilter(q, businessId) == SelectSeq(q, LAMBDA s : ~s.synced)

\* index('synced').getAll(false), then the optional business filter.
getPendingSales(q, businessId) ==
    SelectSeq(q, LAMBDA s : ~s.synced
                            /\ (businessId # 0 => s.businessId = businessId))

\* What a bug would make of markSaleAsSynced: the record is read but the flag
\* is never written back.
markSaleAsSynced_NoPut(q, saleId) == q

\* What a bug would make of markSaleAsSynced: the flag is flipped instead of
\* set.
markSaleAsSynced_Toggle(q, saleId) ==
    [k \in 1..Len(q) |->
        IF q[k].id = saleId THEN [q[k] EXCEPT !.synced = ~@] ELSE q[k]]

\* store.get(saleId), set synced, store.put; no record found: nothing.
markSaleAsSynced(q, saleId) ==
    [k \in 1..Len(q) |->
        IF q[k].id = saleId THEN [q[k] EXCEPT !.synced = TRUE] ELSE q[k]]

\* What a bug would make of deleteSyncedSales: getAll() without the key,
\* every record is deleted.
deleteSyncedSales_All(q) == SelectSeq(q, LAMBDA s : FALSE)

\* What a bug would make of deleteSyncedSales: the records are read and none
\* is deleted.
deleteSyncedSales_None(q) == q

\* What a bug would make of deleteSyncedSales: the index is read with the key
\* of getPendingSales, getAll(false), and the pending records are deleted.
deleteSyncedSales_Pending(q) == SelectSeq(q, LAMBDA s : s.synced)

\* index('synced').getAll(true), then store.delete of each.
deleteSyncedSales(q) == SelectSeq(q, LAMBDA s : ~s.synced)

\* ------------------------------------------------------ Firestore service
\* The document addSale writes: the totals are computed again from the items
\* and the rate the business carries at the time of the write.  Two fields
\* are not part of the document and only record where it comes from: origin,
\* the local id of the queued record (0 for a capture made online), and sent,
\* the totals of the sale data handed to addSale.
addSale(saleData, origin) ==
    LET rate == IF businesses[saleData.businessId] # 0
                THEN businesses[saleData.businessId] ELSE DefaultVatRate
        subtotal == SumItems(saleData.items)
        tax == calculateTax(subtotal, rate)
    IN  [businessId |-> saleData.businessId,
         recordedByUserId |-> saleData.recordedByUserId,
         items |-> saleData.items,
         paymentMethod |-> saleData.paymentMethod,
         subtotal |-> subtotal,
         vatAmount |-> tax.vatAmount,
         total |-> tax.total,
         origin |-> origin,
         sent |-> [subtotal |-> saleData.subtotal,
                   vatAmount |-> saleData.vatAmount,
                   total |-> saleData.total]]

\* The number of documents of the collection that come from the queue.
QueuedDocs(collection) ==
    BagCardinality([d \in {x \in BagToSet(collection) : x.origin # 0}
                        |-> collection[d]])

\* What a Firestore write can do: commit and resolve, reject without
\* committing, or commit and reject (the acknowledgment is lost, an
\* environment event).  navigator.onLine does not decide the outcome.
WriteOutcomes ==
    {"ok", "fail"} \cup (IF nEvents < MaxEvents THEN {"lostack"} ELSE {})

Committed(outcome) == outcome \in {"ok", "lostack"}

\* --------------------------------------------------------- sync coordinator
InFlight(run) == run.pc \in {"listing", "submit", "mark", "purge"}

\* The slot a new invocation takes: the first one not in use.
FreeSlot(r) ==
    /\ runs[r].pc = "idle"
    /\ \A x \in Runs : x < r => runs[x].pc # "idle"

\* What a bug would make of syncPendingSales: no connectivity check.
syncPendingSales_NoCheck(r, businessId, uid) ==
    /\ nSyncs' = IF nSyncs < MaxSyncs THEN nSyncs + 1 ELSE nSyncs
    /\ runs' = [runs EXCEPT ![r] =
                    [IdleRun EXCEPT !.pc = "listing",
                                    !.businessId = businessId,
                                    !.uid = uid,
                                    !.wasOnline = TRUE]]

\* syncPendingSales up to its first await: offline it returns {0, 0} at once,
\* online it goes on to list the queue.
syncPendingSales(r, businessId, uid) ==
    /\ nSyncs' = IF nSyncs < MaxSyncs THEN nSyncs + 1 ELSE nSyncs
    /\ IF ~isOnline
          THEN runs' =
                [runs EXCEPT ![r] =
                    [IdleRun EXCEPT !.pc = "done", !.businessId = businessId,
                                    !.uid = uid]]
       ELSE runs' =
                [x \in Runs |->
                    IF x = r
                    THEN [IdleRun EXCEPT !.pc = "listing",
                                         !.businessId = businessId,
                                         !.uid = uid,
                                         !.wasOnline = TRUE,
                                         !.salesAtStart = QueuedDocs(sales),
                                         !.overlapped =
                                            \E y \in Runs : InFlight(runs[y])]
                    ELSE IF InFlight(runs[x])
                         THEN [runs[x] EXCEPT !.overlapped = TRUE]
                         ELSE runs[x]]

\* The effect of RecordSale on [user, selectedBusinessId]: sync when there is
\* a user, a business and connectivity.
SyncEffect(uid, businessId) ==
    IF uid # 0 /\ businessId # 0 /\ isOnline
    THEN \E r \in Runs : FreeSlot(r) /\ syncPendingSales(r, businessId, uid)
    ELSE UNCHANGED <<runs, nSyncs>>

\* A call of syncPendingSales made while offline, which the effect never
\* makes.
TriggerSyncOffline(businessId) ==
    /\ ~isOnline
    /\ \E r \in Runs : FreeSlot(r) /\ syncPendingSales(r, businessId, user)
    /\ UNCHANGED <<online, idbAvailable, db, queue, nextId, sales, businesses,
                   user, selectedBusinessId, vatRate, toast, nCaptures,
                   nEvents, appended>>
    /\ UNCHANGED <<form, direct>>

\* What a bug would make of the loop: a failed record ends it.
Advance_AbortOnFailure(run) ==
    IF run.i >= Len(run.pending) \/ run.failed > 0
    THEN [run EXCEPT !.pc = "purge"]
    ELSE [run EXCEPT !.pc = "submit", !.i = run.i + 1]

\* What a bug would make of the loop: the run returns after the last record
\* without the purge.
Advance_NoPurge(run) ==
    IF run.i >= Len(run.pending)
    THEN [run EXCEPT !.pc = "done",
                     !.result = [synced |-> run.synced,
                                 failed |-> run.failed]]
    ELSE [run EXCEPT !.pc = "submit", !.i = run.i + 1]

\* The loop goes on to the next record, or to the purge after the last one.
Advance(run) ==
    IF run.i >= Len(run.pending)
    THEN [run EXCEPT !.pc = "purge"]
    ELSE [run EXCEPT !.pc = "submit", !.i = run.i + 1]

\* The outer catch of syncPendingSales.
Caught(run) ==
    [run EXCEPT !.pc = "done", !.result = [synced |-> 0, failed |-> 0],
                !.fault = TRUE]

\* await getPendingSales(businessId)
SyncList(r) ==
    /\ runs[r].pc = "listing"
    /\ \/ /\ initDBResolves
          /\ db' = TRUE
          /\ nEvents' = nEvents
          /\ LET pending == getPendingSales(queue, runs[r].businessId)
                 run == [runs[r] EXCEPT !.pending = pending,
                                        !.nextIdAtList = nextId]
             IN  runs' = [runs EXCEPT ![r] =
                            IF pending = <<>>
                            THEN [run EXCEPT !.pc = "purge"]
                            ELSE [run EXCEPT !.pc = "submit", !.i = 1]]
       \/ /\ ~initDBResolves
          /\ UNCHANGED <<db, nEvents>>
          /\ runs' = [runs EXCEPT ![r] = Caught(runs[r])]
       \/ /\ initDBResolves
          /\ nEvents < MaxEvents
          /\ db' = TRUE
          /\ nEvents' = nEvents + 1
          /\ runs' = [runs EXCEPT ![r] = Caught(runs[r])]
    /\ UNCHANGED <<online, idbAvailable, queue, nextId, sales, businesses,
                   user, selectedBusinessId, vatRate, toast, nCaptures,
                   appended, nSyncs>>
    /\ UNCHANGED <<form, direct>>

\* The sale handed to the submitter: the stored fields, with the business and
\* the user of the effect that started the run.
firestoreSale(sale, run) ==
    [businessId |-> run.businessId,
     recordedByUserId |-> run.uid,
     items |-> sale.items,
     paymentMethod |-> sale.paymentMethod,
     subtotal |-> sale.subtotal,
     vatAmount |-> sale.vatAmount,
     total |-> sale.total]

\* await addSaleFunction(firestoreSale)
SyncSubmit(r, outcome) ==
    /\ runs[r].pc = "submit"
    /\ outcome \in WriteOutcomes
    /\ LET run == runs[r]
           sale == run.pending[run.i]
           tried == [run EXCEPT !.attempted = Append(@, sale.id),
                                !.outcomes = Append(@, outcome)]
       IN  /\ sales' = IF Committed(outcome)
                       THEN sales (+) SetToBag({addSale(firestoreSale(sale, run),
                                                        sale.id)})
                       ELSE sales
           /\ nEvents' = IF outcome = "lostack" THEN nEvents + 1
                          ELSE nEvents
           /\ runs' = [runs EXCEPT ![r] =
                        IF outcome = "ok"
                        THEN [tried EXCEPT !.pc = "mark"]
                        ELSE Advance([tried EXCEPT !.failed = @ + 1])]
    /\ UNCHANGED <<online, idbAvailable, db, queue, nextId, businesses, user,
                   selectedBusinessId, vatRate, toast, nCaptures, appended, nSyncs>>
    /\ UNCHANGED <<form, direct>>

\* await markSaleAsSynced(sale.id); synced++.  A request error lands in the
\* catch of the loop body.
SyncMark(r) ==
    /\ runs[r].pc = "mark"
    /\ LET run == runs[r]
           sale == run.pending[run.i]
       IN  \/ /\ queue' = markSaleAsSynced(queue, sale.id)
              /\ nEvents' = nEvents
              /\ runs' = [runs EXCEPT ![r] =
                            Advance([run EXCEPT !.synced = @ + 1])]
           \/ /\ nEvents < MaxEvents
              /\ nEvents' = nEvents + 1
              /\ queue' = queue
              /\ runs' = [runs EXCEPT ![r] =
                            Advance([run EXCEPT !.failed = @ + 1,
                                                !.fault = TRUE])]
    /\ UNCHANGED <<online, idbAvailable, db, nextId, sales, businesses, user,
                   selectedBusinessId, vatRate, toast, nCaptures, appended, nSyncs>>
    /\ UNCHANGED <<form, direct>>

\* await deleteSyncedSales(); return {synced, failed}.
SyncPurge(r) ==
    /\ runs[r].pc = "purge"
    /\ \/ /\ queue' = deleteSyncedSales(queue)
          /\ nEvents' = nEvents
          /\ runs' = [runs EXCEPT ![r] =
                        [runs[r] EXCEPT !.pc = "done",
                                        !.result = [synced |-> runs[r].synced,
                                                    failed |-> runs[r].failed]]]
       \/ /\ nEvents < MaxEvents
          /\ nEvents' = nEvents + 1
          /\ queue' = queue
          /\ runs' = [runs EXCEPT ![r] = Caught(runs[r])]
    /\ UNCHANGED <<online, idbAvailable, db, nextId, sales, businesses, user,
                   selectedBusinessId, vatRate, toast, nCaptures, appended, nSyncs>>
    /\ UNCHANGED <<form, direct>>

\* .then((result) => ...): the confirmation when something was synced.
SyncThen(r) ==
    /\ runs[r].pc = "done"
    /\ toast' = IF runs[r].result.synced > 0 THEN "synced" ELSE toast
    /\ runs' = [runs EXCEPT ![r] = IdleRun]
    /\ UNCHANGED <<online, idbAvailable, db, queue, nextId, sales, businesses,
                   user, selectedBusinessId, vatRate, nCaptures, nEvents,
                   appended, nSyncs>>
    /\ UNCHANGED <<form, direct>>

\* ------------------------------------------------------- RecordSale page
\* Another user signs in on the device; the page starts over.
SwitchUser(u) ==
    /\ u # user
    /\ nEvents < MaxEvents
    /\ nEvents' = nEvents + 1
    /\ user' = u
    /\ selectedBusinessId' = 0
    /\ vatRate' = DefaultVatRate
    /\ UNCHANGED <<online, idbAvailable, db, queue, nextId, sales, businesses,
                   runs, toast, nCaptures, appended, nSyncs>>
    /\ UNCHANGED <<form, direct>>

\* setSelectedBusinessId(b): loadBusinessData sets the rate when the business
\* carries one (loaded), or fails and leaves it; the sync effect runs.
SelectBusiness(b, loaded) ==
    /\ b # selectedBusinessId
    /\ loaded \/ nEvents < MaxEvents
    /\ nEvents' = IF loaded THEN nEvents ELSE nEvents + 1
    /\ selectedBusinessId' = b
    /\ vatRate' = IF loaded /\ businesses[b] # 0 THEN businesses[b]
                  ELSE vatRate
    /\ SyncEffect(user, b)
    /\ UNCHANGED <<online, idbAvailable, db, queue, nextId, sales, businesses,
                   user, toast, nCaptures, appended>>
    /\ UNCHANGED <<form, direct>>

\* The page is reloaded or the application closed and opened again: every
\* run in progress is gone, the handle and the page state start over.
Reload ==
    /\ nEvents < MaxEvents
    /\ \E r \in Runs : InFlight(runs[r])
    /\ nEvents' = nEvents + 1
    /\ runs' = [r \in Runs |-> IdleRun]
    /\ db' = FALSE
    /\ selectedBusinessId' = 0
    /\ vatRate' = DefaultVatRate
    /\ toast' = "none"
    /\ UNCHANGED <<online, idbAvailable, queue, nextId, sales, businesses,
                   user, nCaptures, appended, nSyncs>>
    /\ UNCHANGED <<form, direct>>

\* What a bug would make of the online path: a rejected write falls back to
\* the queue.
RecordSaleOnline_Fallback(saleData, outcome) ==
    /\ isOnline
    /\ outcome \in WriteOutcomes
    /\ sales' = IF Committed(outcome)
                THEN sales (+) SetToBag({addSale(saleData, 0)})
                ELSE sales
    /\ nEvents' = IF outcome = "lostack" THEN nEvents + 1 ELSE nEvents
    /\ toast' = IF outcome = "ok" THEN "Sale recorded successfully"
                ELSE "Failed to record sale"
    /\ queue' = IF outcome = "ok" THEN queue
                ELSE Append(queue, saleRecord(saleData, nextId))
    /\ nextId' = IF outcome = "ok" THEN nextId ELSE nextId + 1
    /\ UNCHANGED <<db, appended>>

\* handleRecordSale with a valid form, online: await addSale(saleData).
RecordSaleOnline(saleData, outcome) ==
    /\ isOnline
    /\ outcome \in WriteOutcomes
    /\ sales' = IF Committed(outcome)
                THEN sales (+) SetToBag({addSale(saleData, 0)})
                ELSE sales
    /\ nEvents' = IF outcome = "lostack" THEN nEvents + 1 ELSE nEvents
    /\ toast' = IF outcome = "ok" THEN "Sale recorded successfully"
                ELSE "Failed to record sale"
    /\ UNCHANGED <<db, queue, nextId, appended>>

\* handleRecordSale with a valid form, offline: await
\* storeSaleOffline(saleData).  The result of the add request is not awaited:
\* the id is returned whether or not the request stores the record.
RecordSaleOffline(saleData, stored) ==
    /\ ~isOnline
    /\ IF initDBResolves
       THEN /\ db' = TRUE
            /\ nextId' = nextId + 1
            /\ queue' = IF stored
                        THEN Append(queue, saleRecord(saleData, nextId))
                        ELSE queue
            /\ appended' = IF stored
                           THEN (nextId :> businesses[saleData.businessId])
                                @@ appended
                           ELSE appended
            /\ nEvents' = IF stored THEN nEvents ELSE nEvents + 1
            /\ toast' = "Sale saved offline"
       ELSE /\ stored
            /\ toast' = "Failed to open IndexedDB"
            /\ UNCHANGED <<db, nextId, queue, appended, nEvents>>
    /\ sales' = sales

handleRecordSale(price, quantity, paymentMethod) ==
    /\ selectedBusinessId # 0
    /\ nCaptures < MaxSales
    /\ nCaptures' = nCaptures + 1
    /\ LET subtotal == price * quantity
           tax == calculateTax(subtotal, vatRate)
           saleData == [businessId |-> selectedBusinessId,
                        recordedByUserId |-> user,
                        items |-> <<[pricePerItem |-> price,
                                     quantity |-> quantity]>>,
                        paymentMethod |-> paymentMethod,
                        subtotal |-> subtotal,
                        vatAmount |-> tax.vatAmount,
                        total |-> tax.total]
       IN  \/ \E outcome \in {"ok", "fail", "lostack"} :
                RecordSaleOnline(saleData, outcome)
           \/ \E stored \in BOOLEAN :
                /\ (~stored => nEvents < MaxEvents)
                /\ RecordSaleOffline(saleData, stored)
    /\ UNCHANGED <<online, idbAvailable, businesses, user, selectedBusinessId,
                   vatRate, runs, nSyncs>>
    /\ UNCHANGED direct

\* A returned syncPendingSales settles its promise and the .then callback
\* runs as a microtask, before the event loop takes any other task.
NoMicrotask == \A r \in Runs : runs[r].pc # "done"

Next ==
    \/ \E r \in Runs : SyncThen(r)
    \/ NoMicrotask /\ GoOnline
    \/ NoMicrotask /\ GoOffline
    \/ NoMicrotask
       /\ \E b \in Businesses, rate \in Rates : UpdateBusiness(b, rate)
    \/ NoMicrotask /\ \E v \in BOOLEAN : SetIdbAvailable(v)
    \/ NoMicrotask /\ \E u \in Users : SwitchUser(u)
    \/ NoMicrotask /\ nSyncs < MaxSyncs
       /\ \E b \in Businesses, loaded \in BOOLEAN : SelectBusiness(b, loaded)
    \/ NoMicrotask /\ Reload
    \/ NoMicrotask
       /\ \E p \in Prices, q \in Quantities, m \in PaymentMethods :
            handleRecordSale(p, q, m)
       /\ form' = form
    \/ NoMicrotask /\ nSyncs < MaxSyncs
       /\ \E b \in Businesses : TriggerSyncOffline(b)
    \/ NoMicrotask /\ \E r \in Runs : SyncList(r)
    \/ NoMicrotask
       /\ \E r \in Runs, outcome \in {"ok", "fail", "lostack"} :
            SyncSubmit(r, outcome)
    \/ NoMicrotask /\ \E r \in Runs : SyncMark(r)
    \/ NoMicrotask /\ \E r \in Runs : SyncPurge(r)

Spec == Init /\ [][Next]_vars
\* ------------------------------------------------------------------ claims
Finished(run) == run.pc = "done" /\ run.wasOnline /\ ~run.fault

ListedIds(run) == {run.pending[k].id : k \in 1..Len(run.pending)}

FailedIds(run) ==
    {run.pending[k].id : k \in {j \in 1..Len(run.outcomes) :
                                    run.outcomes[j] # "ok"}}

\* The records getPendingSales returns for the business of the run, among
\* those appended before the run listed the queue.
StillPending(run) ==
    {queue[k].id : k \in {j \in 1..Len(queue) :
                            /\ ~queue[j].synced
                            /\ queue[j].businessId = run.businessId
                            /\ queue[j].id < run.nextIdAtList}}

Delivered(id) == \E d \in BagToSet(sales) : d.origin = id

NoLostSale ==
    \A id \in DOMAIN appended :
        (\A k \in 1..Len(queue) : queue[k].id = id => queue[k].synced)
        => Delivered(id)

\* A record is flagged and the page was reloaded before the purge of the run
\* that flagged it (the handle is lost only by a reload).
NoLostSaleWitness ==
    /\ ~db
    /\ \E k \in 1..Len(queue) : queue[k].synced

\* C5: the document committed by sync for a sale that was captured offline
\* with the rate its business carried then has the subtotal, vatAmount and
\* total of the queued record.
FrozenVatAcrossSync ==
    \A d \in BagToSet(sales) :
        (/\ d.origin # 0
         /\ appended[d.origin] # 0
         /\ d.sent.vatAmount
              = calculateTax(d.sent.subtotal, appended[d.origin]).vatAmount)
        => /\ d.subtotal = d.sent.subtotal
           /\ d.vatAmount = d.sent.vatAmount
           /\ d.total = d.sent.total

\* C6: no record is submitted by two runs that are in progress at the same
\* time (the first part of the claim; with it falls the second, that at most
\* one run is between its listing and its purge).
SingleFlightSync ==
    \A r1, r2 \in Runs :
        r1 # r2
        => \A k1 \in 1..Len(runs[r1].attempted),
              k2 \in 1..Len(runs[r2].attempted) :
                runs[r1].attempted[k1] # runs[r2].attempted[k2]

\* C7: an invocation of syncPendingSales made while offline returns
\* {synced: 0, failed: 0} in the same step, without a submission and without
\* a change of the queue or of the sales collection.
OfflineSyncIsNoop ==
    [][\A r \in Runs :
        (runs[r].pc = "idle" /\ runs'[r].pc # "idle" /\ ~online)
        => /\ runs'[r].pc = "done"
           /\ runs'[r].result = [synced |-> 0, failed |-> 0]
           /\ runs'[r].attempted = <<>>
           /\ queue' = queue
           /\ sales' = sales]_vars

OfflineSyncWitness ==
    \E r \in Runs :
        /\ runs[r].pc = "done"
        /\ ~runs[r].wasOnline
        /\ ~online
        /\ getPendingSales(queue, runs[r].businessId) # <<>>

\* C8: every change of navigator.onLine from false to true, with a business
\* selected and a slot free, starts a syncPendingSales run.
ReconnectTriggersSync ==
    [][(/\ ~online
        /\ online'
        /\ selectedBusinessId # 0
        /\ nSyncs < MaxSyncs
        /\ \E r \in Runs : runs[r].pc = "idle")
       => \E r \in Runs : runs[r].pc = "idle" /\ runs'[r].pc = "listing"]_vars

\* A step of handleRecordSale that got past the validation.
CaptureStep == nCaptures' = nCaptures + 1

Recorded(t) == t \in {"Sale recorded successfully", "Sale saved offline"}

\* C9: a capture reported as recorded has stored exactly one sale: one new
\* document in the sales collection when it was online, one new unsynchronized
\* record in the queue when it was offline, and nothing on the other side.
CapturePathExclusive ==
    [][(CaptureStep /\ Recorded(toast'))
       => \/ /\ online
             /\ BagCardinality(sales') = BagCardinality(sales) + 1
             /\ queue' = queue
          \/ /\ ~online
             /\ Len(queue') = Len(queue) + 1
             /\ SubSeq(queue', 1, Len(queue)) = queue
             /\ ~queue'[Len(queue')].synced
             /\ sales' = sales]_vars

\* C10: a capture made online whose Firestore write fails appends nothing to
\* the queue and is reported as failed; a capture made offline whose append
\* fails writes nothing to the sales collection.
NoCrossPathFallback ==
    [][CaptureStep
       => /\ (online /\ sales' = sales)
             => (queue' = queue /\ toast' = "Failed to record sale")
          /\ (~online /\ queue' = queue) => sales' = sales]_vars

NoCrossPathFallbackWitness ==
    /\ toast = "Failed to record sale"
    /\ nCaptures = 1
    /\ nEvents = 0
    /\ queue = <<>>
    /\ sales = EmptyBag

\* ---------------------------------------------------------------- liveness
\* The business is selected again while online, which starts a run for it.
Resync(b) == NoMicrotask /\ isOnline /\ SelectBusiness(b, TRUE)

\* The submission of the record with this local id succeeds.
SubmitOk(id) ==
    /\ NoMicrotask
    /\ \E r \in Runs :
        /\ runs[r].pc = "submit"
        /\ runs[r].pending[runs[r].i].id = id
        /\ SyncSubmit(r, "ok")

\* The steps of LiveSpec: those of Spec in which no environment event
\* happens (no reload, lost acknowledgment, IndexedDB error, edit of a rate
\* or change of user) and without the offline call, with no bound on the
\* number of runs.  The captures are those that append to the queue, of one
\* unit each.
LiveNext ==
    \/ \E r \in Runs : SyncThen(r)
    \/ NoMicrotask /\ GoOnline
    \/ NoMicrotask /\ GoOffline
    \/ NoMicrotask
       /\ \E b \in Businesses : SelectBusiness(b, TRUE)
    \/ NoMicrotask
       /\ ~isOnline
       /\ \E p \in Prices, m \in PaymentMethods : handleRecordSale(p, 1, m)
       /\ nEvents' = nEvents
       /\ form' = form
    \/ NoMicrotask /\ nEvents' = nEvents /\ \E r \in Runs : SyncList(r)
    \/ NoMicrotask
       /\ \E r \in Runs, outcome \in {"ok", "fail"} : SyncSubmit(r, outcome)
    \/ NoMicrotask /\ nEvents' = nEvents /\ \E r \in Runs : SyncMark(r)
    \/ NoMicrotask /\ nEvents' = nEvents /\ \E r \in Runs : SyncPurge(r)

\* A continuation of the run in slot r.
RunStep(r) ==
    \/ SyncThen(r)
    \/ NoMicrotask /\ SyncList(r)
    \/ NoMicrotask /\ \E outcome \in {"ok", "fail"} : SyncSubmit(r, outcome)
    \/ NoMicrotask /\ SyncMark(r)
    \/ NoMicrotask /\ SyncPurge(r)

\* The event loop runs every continuation of a run; every business keeps
\* being selected again while online, which invokes the sync for it; the
\* submission of a record does not fail for ever.
Fairness ==
    /\ \A r \in Runs : WF_vars(RunStep(r))
    /\ \A b \in Businesses : []<><<Resync(b)>>_vars
    /\ \A id \in 1..MaxSales : SF_vars(SubmitOk(id))

LiveSpec == Init /\ [][LiveNext]_vars /\ Fairness

Pending(id) == \E k \in 1..Len(queue) : queue[k].id = id /\ ~queue[k].synced

Subtotals ==
    {-100000, 0, 400, 3300, 100000, 100400, 100600, 1999000, 2000000,
     5000000, 7500000, 10000000}

TaxRates == {-5, 0, 10, 18, 100, 120}

TaxInit ==
    /\ Mounted
    /\ form = EmptyForm
    /\ call = NoCall
    /\ taxCall \in [subtotal : Subtotals, vatRate : TaxRates,
                     status : {"none"}, result : {NoTax.result}]
    /\ AsideInit

\* calculateTax(subtotal, vatRate): it has no throw statement, every call
\* returns.
CallCalculateTax ==
    /\ taxCall.status = "none"
    /\ taxCall' = [taxCall EXCEPT
                        !.status = "ok",
                        !.result = calculateTax(taxCall.subtotal,
                                                taxCall.vatRate)]
    /\ UNCHANGED <<online, idbAvailable, db, queue, nextId, sales, businesses,
                   user, selectedBusinessId, vatRate, runs, toast, nCaptures,
                   nEvents, nSyncs, appended, form, call, aside>>

TaxNext == CallCalculateTax

TaxSpec == TaxInit /\ [][TaxNext]_vars

ValidTaxInput == taxCall.subtotal >= 0 /\ taxCall.vatRate \in 0..100

\* C14: for a subtotal >= 0 and a rate in [0, 1] calculateTax returns
\* vatAmount = round2(subtotal * rate) and total = round2(subtotal) +
\* vatAmount.
TaxFormula ==
    (taxCall.status = "ok" /\ ValidTaxInput)
    => /\ taxCall.result.vatAmount
            = toFixed2((taxCall.subtotal * taxCall.vatRate) \div 100)
       /\ taxCall.result.total
            = toFixed2(taxCall.subtotal) + taxCall.result.vatAmount

\* C15 as stated: for a subtotal >= 0 and a rate in [0, 1] the total is at
\* least the subtotal passed in and at least the subtotal returned.
TotalAtLeastSubtotal ==
    (taxCall.status = "ok" /\ ValidTaxInput)
    => /\ taxCall.result.total >= taxCall.subtotal
       /\ taxCall.result.total >= taxCall.result.subtotal

\* C15: for a subtotal >= 0 and a rate in [0, 1] the total is at least the
\* rounded subtotal returned, and at least the subtotal passed in when that
\* has no more than two fractional digits.
TotalAtLeastRoundedSubtotal ==
    (taxCall.status = "ok" /\ ValidTaxInput)
    => /\ taxCall.result.total >= taxCall.result.subtotal
       /\ (taxCall.subtotal % Cent = 0
           => taxCall.result.total >= taxCall.subtotal)

\* calculateTax(1.004, 0): the total 1.00 is the rounded subtotal, below the
\* subtotal passed in.
TotalAtLeastRoundedSubtotalWitness ==
    /\ taxCall.status = "ok"
    /\ taxCall.subtotal = 100400
    /\ taxCall.vatRate = 0
    /\ taxCall.result.total = 100000

\* C16: a call of calculateTax with a negative subtotal or a rate outside
\* [0, 1] fails, it returns no result.
InvalidTaxInputFails ==
    (taxCall.status # "none" /\ ~ValidTaxInput) => taxCall.status = "error"

\* ------------------------------------------------ the offline service alone
\* The sale data of a capture of one unit for business b at 10%.
SampleSale(b) ==
    LET price == CHOOSE p \in Prices : TRUE
        t == calculateTax(price, 10)
    IN  [businessId |-> b, recordedByUserId |-> 1,
         items |-> <<[pricePerItem |-> price, quantity |-> 1]>>,
         paymentMethod |-> "Cash", subtotal |-> price,
         vatAmount |-> t.vatAmount, total |-> t.total]

\* The sales the direct calls store: one of each business.
SampleSales == {SampleSale(b) : b \in Businesses}

\* The contents the object store can have: records of any business, flagged
\* or not.
QueuesOfLen(n) ==
    {[k \in 1..n |-> [saleRecord(SampleSale(f[k].b), k)
                        EXCEPT !.synced = f[k].s]] :
        f \in [1..n -> [b : Businesses, s : BOOLEAN]]}

Queues == UNION {QueuesOfLen(n) : n \in 0..MaxQueue}

\* The page is offline with business 1 selected and its rate loaded; the
\* object store holds records of earlier sessions; IndexedDB can be opened or
\* not.
StoreInit ==
    /\ online = FALSE
    /\ idbAvailable \in BOOLEAN
    /\ db = FALSE
    /\ queue \in Queues
    /\ nextId = Len(queue) + 1
    /\ sales = EmptyBag
    /\ businesses = [b \in Businesses |-> 10]
    /\ user = 1
    /\ selectedBusinessId = 1
    /\ vatRate = 10
    /\ runs = [r \in Runs |-> IdleRun]
    /\ toast = "none"
    /\ nCaptures = 0
    /\ nEvents = 0
    /\ nSyncs = 0
    /\ appended = [k \in 1..Len(queue) |-> 10]
    /\ form = EmptyForm
    /\ call = NoCall
    /\ taxCall = NoTax
    /\ AsideInit

\* The record of a call: the function, its argument (an id or a business),
\* whether initDB resolved, how the promise settled and the queue before it.
Called(op, arg, status, result) ==
    [op |-> op, n |-> call.n + 1, arg |-> arg, opened |-> initDBResolves,
     status |-> status, before |-> queue, result |-> result]

\* A call that cannot open the database, or whose request fails (an
\* environment event): the promise rejects and the store is as before.
Rejects(op, arg) ==
    /\ ~initDBResolves \/ nEvents < MaxEvents
    /\ nEvents' = IF initDBResolves THEN nEvents + 1 ELSE nEvents
    /\ db' = initDBResolves
    /\ call' = Called(op, arg, "error", <<>>)
    /\ UNCHANGED <<queue, nextId, appended>>

\* storeSaleOffline(saleData).  store.add returns a request, so the await
\* does not wait for its result: the id is returned when the request stores
\* the record ("stored") and when it fails later ("lost", an environment
\* event); an exception of add itself is caught and thrown again.
storeSaleOffline(saleData, outcome) ==
    /\ call.n < MaxCalls
    /\ Len(queue) <= MaxQueue
    /\ \/ /\ outcome = "thrown"
          /\ Rejects("store", 0)
       \/ /\ outcome \in {"stored", "lost"}
          /\ initDBResolves
          /\ outcome = "lost" => nEvents < MaxEvents
          /\ nEvents' = IF outcome = "lost" THEN nEvents + 1 ELSE nEvents
          /\ db' = TRUE
          /\ nextId' = nextId + 1
          /\ queue' = IF outcome = "stored"
                      THEN Append(queue, saleRecord(saleData, nextId))
                      ELSE queue
          /\ appended' = IF outcome = "stored"
                         THEN (nextId :> businesses[saleData.businessId])
                              @@ appended
                         ELSE appended
          /\ call' = Called("store", nextId, "ok", <<saleData>>)
    /\ UNCHANGED <<online, idbAvailable, sales, businesses, user,
                   selectedBusinessId, vatRate, runs, toast, nCaptures,
                   nSyncs, form, taxCall, aside>>

\* getPendingSales(businessId), businessId null (0) or a business.
CallGetPendingSales(businessId) ==
    /\ call.n < MaxCalls
    /\ \/ Rejects("list", businessId)
       \/ /\ initDBResolves
          /\ db' = TRUE
          /\ call' = Called("list", businessId, "ok",
                            getPendingSales(queue, businessId))
          /\ UNCHANGED <<queue, nextId, appended, nEvents>>
    /\ UNCHANGED <<online, idbAvailable, sales, businesses, user,
                   selectedBusinessId, vatRate, runs, toast, nCaptures,
                   nSyncs, form, taxCall, aside>>

\* markSaleAsSynced(saleId)
CallMarkSaleAsSynced(saleId) ==
    /\ call.n < MaxCalls
    /\ \/ Rejects("mark", saleId)
       \/ /\ initDBResolves
          /\ db' = TRUE
          /\ queue' = markSaleAsSynced(queue, saleId)
          /\ call' = Called("mark", saleId, "ok", <<>>)
          /\ UNCHANGED <<nextId, appended, nEvents>>
    /\ UNCHANGED <<online, idbAvailable, sales, businesses, user,
                   selectedBusinessId, vatRate, runs, toast, nCaptures,
                   nSyncs, form, taxCall, aside>>

\* deleteSyncedSales()
CallDeleteSyncedSales ==
    /\ call.n < MaxCalls
    /\ \/ Rejects("delete", 0)
       \/ /\ initDBResolves
          /\ db' = TRUE
          /\ queue' = deleteSyncedSales(queue)
          /\ call' = Called("delete", 0, "ok", <<>>)
          /\ UNCHANGED <<nextId, appended, nEvents>>
    /\ UNCHANGED <<online, idbAvailable, sales, businesses, user,
                   selectedBusinessId, vatRate, runs, toast, nCaptures,
                   nSyncs, form, taxCall, aside>>

StoreNext ==
    \/ \E saleData \in SampleSales :
            \E outcome \in {"stored", "lost", "thrown"} :
                storeSaleOffline(saleData, outcome)
    \/ \E b \in {0} \cup Businesses : CallGetPendingSales(b)
    \/ \E id \in 1..(MaxQueue + 1) : CallMarkSaleAsSynced(id)
    \/ CallDeleteSyncedSales
    \/ /\ \E p \in Prices, q \in Quantities, m \in PaymentMethods :
            handleRecordSale(p, q, m)
       /\ form' = form

StoreSpec == StoreInit /\ [][StoreNext]_vars

\* A step that is a direct call of the offline service.
CallStep(op) == call'.n = call.n + 1 /\ call'.op = op

\* C11: while the database cannot be opened, every call of storeSaleOffline,
\* getPendingSales, markSaleAsSynced and deleteSyncedSales rejects and leaves
\* the store as it was, and an offline capture shows the failure and stores
\* nothing.
StorageUnavailableFails ==
    [][(~db /\ ~idbAvailable)
       => /\ call'.n # call.n
             => (call'.status = "error" /\ queue' = queue /\ sales' = sales)
          /\ CaptureStep
             => /\ toast' = "Failed to open IndexedDB"
                /\ queue' = queue
                /\ sales' = sales]_vars

StorageUnavailableWitness ==
    /\ ~db
    /\ ~idbAvailable
    /\ toast = "Failed to open IndexedDB"
    /\ call.op = "delete"
    /\ call.status = "error"
    /\ call.n = MaxCalls
    /\ queue # <<>>

\* C12: a call of storeSaleOffline either rejects and leaves the queue as it
\* was, or returns an id and the queue is the one before with one record
\* appended: that id, not synchronized, the fields of the sale.
AppendContract ==
    [][CallStep("store")
       => \/ call'.status = "error" /\ queue' = queue
          \/ /\ call'.status = "ok"
             /\ queue' = Append(queue, saleRecord(call'.result[1], call'.arg))
             /\ ~queue'[Len(queue')].synced]_vars

\* C19: a call of markSaleAsSynced that meets no IndexedDB failure succeeds;
\* it sets the flag of the record with that id and changes nothing else; on
\* a record already flagged, on an id the queue does not hold and when it
\* repeats the call before it (nothing appended in between), the queue is
\* left as it was.
MarkIdempotent ==
    [][CallStep("mark")
       => LET id == call'.arg IN
          /\ (initDBResolves /\ nEvents' = nEvents) => call'.status = "ok"
          /\ call'.status = "ok"
             => /\ Len(queue') = Len(queue)
                /\ \A k \in 1..Len(queue) :
                    /\ queue[k].id = id
                       => queue'[k] = [queue[k] EXCEPT !.synced = TRUE]
                    /\ queue[k].id # id => queue'[k] = queue[k]
                /\ (\A k \in 1..Len(queue) :
                        queue[k].id = id => queue[k].synced)
                   => queue' = queue
                /\ (/\ call.op = "mark"
                    /\ call.arg = id
                    /\ call.status = "ok"
                    /\ Len(call.before) = Len(queue))
                   => queue' = queue]_vars

\* The third of three calls on the same record, which changed nothing.
MarkIdempotentWitness ==
    /\ call.op = "mark"
    /\ call.status = "ok"
    /\ call.n = MaxCalls
    /\ call.before = queue
    /\ \E k \in 1..Len(queue) : queue[k].id = call.arg /\ queue[k].synced

ProductNames == {"", "Tea"}
PriceFields == {"", "abc", "0", "-5", "1.005"}
QuantityFields == {"", "abc", "0", "-1", "1", "2"}
PaymentFields == {"Cash", "Custom"}
CustomFields == {"", " ", "Momo"}

Forms ==
    [productName : ProductNames, price : PriceFields,
     quantity : QuantityFields, paymentMethod : PaymentFields,
     customPaymentMethod : CustomFields]

\* parseFloat and parseInt of a field: whether the result is a number (not
\* NaN), and the number.
Numeric(s) == s \in {"0", "-5", "-1", "1", "2", "1.005"}

parseFloat(s) ==
    CASE s = "1.005" -> 100500
      [] s = "-5" -> -500000
      [] OTHER -> 0

parseInt(s) ==
    CASE s = "1" -> 1
      [] s = "2" -> 2
      [] s = "-1" -> -1
      [] OTHER -> 0

trim(s) == IF s = " " THEN "" ELSE s

\* What a bug would make of the validation: the tests of the sign are
\* missing, only NaN is refused.
Rejection_NoSign(f, businessId) ==
    IF f.productName = "" \/ f.price = ""
    THEN "Please enter product name and price"
    ELSE IF businessId = 0 THEN "Please select a business"
    ELSE IF ~Numeric(f.price) THEN "Please enter a valid price"
    ELSE IF ~Numeric(f.quantity) THEN "Please enter a valid quantity"
    ELSE IF f.paymentMethod = "Custom" /\ trim(f.customPaymentMethod) = ""
    THEN "Please enter a custom payment method"
    ELSE "none"

\* The validation of handleRecordSale: the error it shows before it returns,
\* "none" when the form passes.
Rejection(f, businessId) ==
    IF f.productName = "" \/ f.price = ""
    THEN "Please enter product name and price"
    ELSE IF businessId = 0 THEN "Please select a business"
    ELSE IF ~Numeric(f.price) \/ parseFloat(f.price) <= 0
    THEN "Please enter a valid price"
    ELSE IF ~Numeric(f.quantity) \/ parseInt(f.quantity) <= 0
    THEN "Please enter a valid quantity"
    ELSE IF f.paymentMethod = "Custom" /\ trim(f.customPaymentMethod) = ""
    THEN "Please enter a custom payment method"
    ELSE "none"

\* The page online or offline, a business selected and loaded or none, the
\* form filled in.
FormInit ==
    /\ online \in BOOLEAN
    /\ idbAvailable = TRUE
    /\ db = FALSE
    /\ queue = <<>>
    /\ nextId = 1
    /\ sales = EmptyBag
    /\ businesses = [b \in Businesses |-> 10]
    /\ user = 1
    /\ selectedBusinessId \in {0} \cup Businesses
    /\ vatRate = IF selectedBusinessId = 0 THEN DefaultVatRate ELSE 10
    /\ runs = [r \in Runs |-> IdleRun]
    /\ toast = "none"
    /\ nCaptures = 0
    /\ nEvents = 0
    /\ nSyncs = 0
    /\ appended = <<>>
    /\ form \in Forms
    /\ call = NoCall
    /\ taxCall = NoTax
    /\ AsideInit

\* The form is submitted: handleRecordSale from its first line.  A form that
\* fails the validation shows the error and nothing else happens; the form
\* is cleared when the sale was recorded.
SubmitForm ==
    LET why == Rejection(form, selectedBusinessId) IN
    IF why # "none"
    THEN /\ toast' = why
         /\ UNCHANGED <<online, idbAvailable, db, queue, nextId, sales,
                        businesses, user, selectedBusinessId, vatRate, runs,
                        nCaptures, nEvents, nSyncs, appended, form, call,
                        taxCall, aside>>
    ELSE /\ handleRecordSale(parseFloat(form.price), parseInt(form.quantity),
                             IF form.paymentMethod = "Custom"
                             THEN trim(form.customPaymentMethod)
                             ELSE form.paymentMethod)
         /\ form' = IF Recorded(toast') THEN EmptyForm ELSE form

FormNext == SubmitForm

FormSpec == FormInit /\ [][FormNext]_vars

\* A capture request that is malformed: no product name, no price, a price
\* or a quantity that is no number or not positive, no business selected, an
\* empty custom payment method.
Malformed ==
    \/ form.productName = ""
    \/ form.price = ""
    \/ ~Numeric(form.price)
    \/ parseFloat(form.price) <= 0
    \/ ~Numeric(form.quantity)
    \/ parseInt(form.quantity) <= 0
    \/ selectedBusinessId = 0
    \/ form.paymentMethod = "Custom" /\ form.customPaymentMethod = ""

\* C13: the submission of a malformed capture request touches neither the
\* sales collection nor the queue, does not open the database and does not
\* get to the connectivity check; it is not reported as recorded.
MalformedRejected ==
    [][Malformed
       => /\ sales' = sales
          /\ queue' = queue
          /\ db' = db
          /\ nextId' = nextId
          /\ nCaptures' = nCaptures
          /\ ~Recorded(toast')]_vars

\* A form whose name, price and business pass and whose quantity does not.
MalformedRejectedWitness ==
    /\ toast = "Please enter a valid quantity"
    /\ form.quantity = "-1"
    /\ sales = EmptyBag
    /\ queue = <<>>


\* ------------------------------------------- the sale a capture has stored
\* The records a step appends to the queue and the documents it adds to the
\* sales collection.
NewRecords == {queue'[k] : k \in (Len(queue) + 1)..Len(queue')}

NewDocs == {d \in BagToSet(sales') : CopiesIn(d, sales') > CopiesIn(d, sales)}

\* C17: the VAT of a sale stored by a capture is the one of the rate its
\* business carries in the directory at the time of the capture, a rate of 0
\* included; the default rate does not take its place.
BusinessRateApplied ==
    [][CaptureStep
       => \A s \in NewRecords \cup NewDocs :
            s.vatAmount
              = calculateTax(s.subtotal, businesses[s.businessId]).vatAmount
      ]_vars

\* The sales stored by a capture: the records of the queue and the documents
\* written by the page.
CapturedSales ==
    {queue[k] : k \in 1..Len(queue)}
        \cup {d \in BagToSet(sales) : d.origin = 0}

\* C18: every sale stored by a capture has its subtotal, vatAmount and total
\* rounded to 2 fractional digits, the subtotal the rounded sum of the items,
\* the vatAmount the rounded product of the subtotal and a rate, the total
\* the rounded subtotal plus the vatAmount.
StoredSaleRounded ==
    \A s \in CapturedSales :
        /\ s.subtotal = toFixed2(SumItems(s.items))
        /\ \E rate \in 0..100 :
             s.vatAmount = toFixed2((s.subtotal * rate) \div 100)
        /\ s.total = toFixed2(s.subtotal) + s.vatAmount


\* ------------------------------------------- sync over a queue of sessions
\* The page online, nobody selected yet; the object store holds records of
\* earlier sessions, of any business, flagged or not.
SyncInit ==
    /\ online = TRUE
    /\ idbAvailable = TRUE
    /\ db = FALSE
    /\ queue \in Queues
    /\ nextId = Len(queue) + 1
    /\ sales = EmptyBag
    /\ businesses = [b \in Businesses |-> 10]
    /\ user = 1
    /\ selectedBusinessId = 0
    /\ vatRate = DefaultVatRate
    /\ runs = [r \in Runs |-> IdleRun]
    /\ toast = "none"
    /\ nCaptures = 0
    /\ nEvents = 0
    /\ nSyncs = 0
    /\ appended = [k \in 1..Len(queue) |-> 10]
    /\ form = EmptyForm
    /\ call = NoCall
    /\ taxCall = NoTax
    /\ AsideInit

\* The runs the page starts, their steps, and getPendingSales called by
\* itself (as getPendingSalesCount calls it, with a business or none).
SyncNext ==
    \/ \E r \in Runs : SyncThen(r)
    \/ NoMicrotask /\ GoOnline
    \/ NoMicrotask /\ GoOffline
    \/ NoMicrotask /\ nSyncs < MaxSyncs
       /\ \E b \in Businesses, loaded \in BOOLEAN : SelectBusiness(b, loaded)
    \/ NoMicrotask /\ \E b \in {0} \cup Businesses : CallGetPendingSales(b)
    \/ NoMicrotask /\ \E r \in Runs : SyncList(r)
    \/ NoMicrotask
       /\ \E r \in Runs, outcome \in {"ok", "fail", "lostack"} :
            SyncSubmit(r, outcome)
    \/ NoMicrotask /\ \E r \in Runs : SyncMark(r)
    \/ NoMicrotask /\ \E r \in Runs : SyncPurge(r)

SyncSpec == SyncInit /\ [][SyncNext]_vars

Range(seq) == {seq[k] : k \in 1..Len(seq)}

\* The records of the store that are not synchronized and belong to the
\* business, to any business when none is given.
PendingOf(q, businessId) ==
    {s \in Range(q) :
        ~s.synced /\ (businessId # 0 => s.businessId = businessId)}

SaleFields(s) ==
    [businessId |-> s.businessId, recordedByUserId |-> s.recordedByUserId,
     items |-> s.items, paymentMethod |-> s.paymentMethod,
     subtotal |-> s.subtotal, vatAmount |-> s.vatAmount, total |-> s.total]

\* C22: in every step a record of the queue either stays, with the same sale
\* fields and a flag that did not go from true to false, or is gone and was
\* flagged before the step.
RecordLifecycle ==
    [][\A s \in Range(queue) :
          IF \E t \in Range(queue') : t.id = s.id
          THEN \A t \in Range(queue') :
                 t.id = s.id => /\ SaleFields(t) = SaleFields(s)
                                /\ s.synced => t.synced
          ELSE s.synced
      ]_vars

\* A captured record was flagged and deleted, and a later one is flagged and
\* still in the queue.
RecordLifecycleWitness ==
    /\ \E id \in DOMAIN appended : \A s \in Range(queue) : s.id # id
    /\ \E s \in Range(queue) : s.synced


\* ------------------------------------------------------- the duplicate gap
\* The number of documents of the collection written for a queued record.
CommitsOf(id) ==
    LET docs == {d \in BagToSet(sales) : d.origin = id}
    IN  BagCardinality([d \in docs |-> sales[d]])

\* C23: the collection holds two documents of the same queued record only
\* after an acknowledgment was lost.  No environment event, and so no lost
\* acknowledgment, has happened while nEvents = 0.
DuplicateOnlyAfterLostAck ==
    \A id \in DOMAIN appended : CommitsOf(id) >= 2 => nEvents > 0


\* ------------------------------------------------ the result of a run shown
\* The callback of a returned run has run: the slot is free again.
Settled(r) == runs[r].pc = "done" /\ runs'[r].pc # "done"

\* C24: when the callback of a run has run, a result with synced > 0 has
\* shown the confirmation, and a result with failed > 0 (and nothing synced,
\* the last notification being the only one kept) has shown a notification
\* that is not the confirmation.
SyncResultNotified ==
    [][\A r \in Runs :
          Settled(r)
            => /\ runs[r].result.synced > 0 => toast' = "synced"
               /\ (runs[r].result.failed > 0 /\ runs[r].result.synced = 0)
                    => toast' \notin {toast, "synced"}
      ]_vars


\* ------------------------------------------------- the order of a run's steps
\* The run in slot r takes a step of its own (a reload, which ends every
\* run, is none).
Steps(r) ==
    /\ InFlight(runs[r])
    /\ runs'[r].pc # "idle"
    /\ <<runs'[r].pc, runs'[r].i>> # <<runs[r].pc, runs[r].i>>

\* After record i the run goes on to record i + 1, or to the purge when i
\* was the last.
NextRecord(r) ==
    \/ /\ runs'[r].pc = "submit"
       /\ runs'[r].i = runs[r].i + 1
       /\ runs[r].i < Len(runs[r].pending)
    \/ /\ runs'[r].pc = "purge"
       /\ runs'[r].i = runs[r].i
       /\ runs[r].i = Len(runs[r].pending)

Submits(r) == Len(runs'[r].attempted) > Len(runs[r].attempted)

\* C26: the submitter is called only while the device is online, also in a
\* run that started online.
NoSubmitOffline ==
    [][\A r \in Runs : Submits(r) => isOnline]_vars


\* ------------------------------------------------------- the tally of a run
\* The number of submissions of a run that the submitter resolved.
Acknowledged(run) ==
    Cardinality({k \in 1..Len(run.outcomes) : run.outcomes[k] = "ok"})

\* C27: the synced count a run returns is the number of records it committed
\* to the sales collection, also after a storage error.  The runs that lost
\* an acknowledgment are left aside: in the others the records committed are
\* the submissions the submitter resolved.
TallyCountsCommitted ==
    \A r \in Runs :
        (/\ runs[r].pc = "done"
         /\ \A k \in 1..Len(runs[r].outcomes) :
                runs[r].outcomes[k] # "lostack")
        => runs[r].result.synced = Acknowledged(runs[r])


\* ------------------------------------------------- the identity of a sale
\* C28: a document written by sync carries the business and the recording
\* user of the queued record it was written for.
IdentityPreserved ==
    [][\A d \in NewDocs :
          d.origin # 0
            => \A s \in Range(queue) :
                  s.id = d.origin
                    => /\ d.businessId = s.businessId
                       /\ d.recordedByUserId = s.recordedByUserId
      ]_vars


\* ------------------------------------------------- accepting an invitation
\* An invitation of business 1 is pending; each user has a users document
\* or not yet (signupWithInvitation accepts before it creates the document).
InviteInit ==
    /\ Mounted
    /\ form = EmptyForm
    /\ call = NoCall
    /\ taxCall = NoTax
    /\ invitation = [exists |-> TRUE, status |-> "pending", businessId |-> 1,
                     acceptedBy |-> 0, version |-> 1]
    /\ userDocs \in [Users -> {NoUserDoc,
                               [exists |-> TRUE, businessId |-> 0,
                                role |-> "none"]}]
    /\ salesRepIds = {}
    /\ accepts = [c \in Accepts |-> NoAccept]
    /\ inactivity = SignedOut

InviteFrame ==
    UNCHANGED <<online, idbAvailable, db, queue, nextId, sales, businesses,
                user, selectedBusinessId, vatRate, runs, toast, nCaptures,
                nEvents, nSyncs, appended, form, call, taxCall, inactivity>>

\* acceptInvitation(invitationId, userId): runTransaction starts its first
\* attempt.
acceptInvitation(c, userId) ==
    /\ accepts[c] = NoAccept
    /\ accepts' = [accepts EXCEPT ![c] =
                    [NoAccept EXCEPT !.pc = "get", !.userId = userId,
                                     !.attempts = 1]]
    /\ UNCHANGED <<invitation, userDocs, salesRepIds>>
    /\ InviteFrame

\* transaction.get(invitationRef) and the tests that follow it: an error
\* thrown by the update function rejects the call, no write was queued.
TransactionGet(c) ==
    /\ accepts[c].pc = "get"
    /\ accepts' = [accepts EXCEPT ![c] =
            IF ~invitation.exists
            THEN [@ EXCEPT !.pc = "done", !.seen = invitation,
                           !.result = "Invitation not found"]
            ELSE IF invitation.status # "pending"
            THEN [@ EXCEPT !.pc = "done", !.seen = invitation,
                           !.result = "Invitation already used or expired"]
            ELSE [@ EXCEPT !.pc = "commit", !.seen = invitation]]
    /\ UNCHANGED <<invitation, userDocs, salesRepIds>>
    /\ InviteFrame

\* What a bug would make of the commit: the writes are applied without the
\* test that the document read is unchanged (get and update outside a
\* transaction).
SeenCurrent_NoCheck(snapshot) == TRUE

\* The document read by the transaction has not been written since.
SeenCurrent(snapshot) == invitation.version = snapshot.version

\* The commit of the transaction.  A document written since it was read
\* fails the commit and runTransaction runs the update function again; an
\* update of a users document that does not exist fails the whole commit;
\* otherwise the three updates are applied together.
TransactionCommit(c) ==
    /\ accepts[c].pc = "commit"
    /\ LET a == accepts[c] IN
       IF ~SeenCurrent(a.seen)
       THEN /\ accepts' = [accepts EXCEPT ![c] =
                            [a EXCEPT !.pc = "get", !.attempts = @ + 1]]
            /\ UNCHANGED <<invitation, userDocs, salesRepIds>>
       ELSE IF ~userDocs[a.userId].exists
       THEN /\ accepts' = [accepts EXCEPT ![c] =
                            [a EXCEPT !.pc = "done", !.result = "not-found"]]
            /\ UNCHANGED <<invitation, userDocs, salesRepIds>>
       ELSE /\ invitation' = [invitation EXCEPT !.status = "accepted",
                                                !.acceptedBy = a.userId,
                                                !.version = @ + 1]
            /\ userDocs' = [userDocs EXCEPT ![a.userId] =
                                [@ EXCEPT !.businessId = a.seen.businessId,
                                          !.role = "representative"]]
            /\ salesRepIds' = salesRepIds \cup {a.userId}
            /\ accepts' = [accepts EXCEPT ![c] =
                            [a EXCEPT !.pc = "done", !.result = "ok"]]
    /\ InviteFrame

\* deleteInvitation(invitationId)
deleteInvitation ==
    /\ invitation.exists
    /\ invitation' = [NoInvitation EXCEPT !.version = invitation.version + 1]
    /\ UNCHANGED <<userDocs, salesRepIds, accepts>>
    /\ InviteFrame

InviteNext ==
    \/ \E c \in Accepts, u \in Users : acceptInvitation(c, u)
    \/ \E c \in Accepts : TransactionGet(c)
    \/ \E c \in Accepts : TransactionCommit(c)
    \/ deleteInvitation

InviteSpec == InviteInit /\ [][InviteNext]_vars

\* The call in slot c settles in this step.
Settles(c) == accepts[c].pc # "done" /\ accepts'[c].pc = "done"

\* C29: at most one acceptInvitation call succeeds; the step in which it
\* succeeds finds the invitation pending, makes it accepted by its user and
\* links that user to the business of the invitation; a call that fails
\* leaves every document as it was; nothing makes the status pending again.
AcceptedOnce ==
    [][/\ Cardinality({c \in Accepts : accepts'[c].result = "ok"}) <= 1
       /\ \A c \in Accepts :
            Settles(c)
              => IF accepts'[c].result = "ok"
                 THEN /\ invitation.status = "pending"
                      /\ invitation'.status = "accepted"
                      /\ invitation'.acceptedBy = accepts[c].userId
                      /\ userDocs'[accepts[c].userId].businessId
                            = invitation.businessId
                      /\ accepts[c].userId \in salesRepIds'
                 ELSE /\ accepts'[c].result
                            \in {"Invitation not found", "not-found",
                                 "Invitation already used or expired"}
                      /\ UNCHANGED <<invitation, userDocs, salesRepIds>>
       /\ invitation.status # "pending" => invitation'.status # "pending"
      ]_vars

\* Two calls read the pending invitation; one has committed, the other has
\* failed its commit, read again and was refused.
AcceptedOnceWitness ==
    \E c, d \in Accepts :
        /\ accepts[c].result = "ok"
        /\ accepts[d].result = "Invitation already used or expired"
        /\ accepts[d].attempts = 2


\* ------------------------------------------------------- inactivity logout
\* One unit of time stands for ten minutes where the period is concerned and
\* keeps the order of the code's delays: the warning timer is set to
\* INACTIVITY_TIMEOUT - WARNING_TIME, the logout timer to INACTIVITY_TIMEOUT,
\* and the warning toast lasts as long as WARNING_TIME.
InactivityTimeout == 3
WarningTime == 1
ToastDuration == 1

\* Nobody is signed in (AuthProvider: useState(null)).
InactivityInit ==
    /\ online = TRUE
    /\ idbAvailable = TRUE
    /\ db = FALSE
    /\ queue = <<>>
    /\ nextId = 1
    /\ sales = EmptyBag
    /\ businesses = [b \in Businesses |-> 10]
    /\ user = 0
    /\ selectedBusinessId = 0
    /\ vatRate = DefaultVatRate
    /\ runs = [r \in Runs |-> IdleRun]
    /\ toast = "none"
    /\ nCaptures = 0
    /\ nEvents = 0
    /\ nSyncs = 0
    /\ appended = <<>>
    /\ form = EmptyForm
    /\ call = NoCall
    /\ taxCall = NoTax
    /\ invitation = NoInvitation
    /\ userDocs = [u \in Users |-> NoUserDoc]
    /\ salesRepIds = {}
    /\ accepts = [c \in Accepts |-> NoAccept]
    /\ inactivity = SignedOut

InactivityFrame ==
    UNCHANGED <<online, idbAvailable, db, queue, nextId, sales, businesses,
                selectedBusinessId, vatRate, runs, toast, nCaptures, nEvents,
                nSyncs, appended, form, call, taxCall, invitation, userDocs,
                salesRepIds, accepts>>

\* resetTimer with a user: both timers cleared, the warning state hidden,
\* both timers set again.  The toast is not dismissed.
resetTimer(i) ==
    [i EXCEPT !.timeout = InactivityTimeout,
              !.warningTimeout = InactivityTimeout - WarningTime,
              !.showWarning = FALSE,
              !.quiet = 0,
              !.warned = FALSE]

\* The effect without a user: both timers cleared, the warning state hidden.
ClearTimers(i) ==
    [i EXCEPT !.timeout = NoTimer, !.warningTimeout = NoTimer,
              !.showWarning = FALSE]

\* setUser(u) after a login: the effect adds the listeners and calls
\* resetTimer.
SignIn(u) ==
    /\ user = 0
    /\ user' = u
    /\ inactivity' = resetTimer(inactivity)
    /\ InactivityFrame

\* setUser(null) by a logout the user asked for.
SignOut ==
    /\ user # 0
    /\ ~inactivity.loggingOut
    /\ user' = 0
    /\ inactivity' = ClearTimers(inactivity)
    /\ InactivityFrame

\* handleActivity: one of the listened events, while a user is signed in.
handleActivity ==
    /\ user # 0
    /\ inactivity' = resetTimer(inactivity)
    /\ user' = user
    /\ InactivityFrame

\* Time passes.  A timer that is due can still be waiting for its turn:
\* setTimeout runs a callback no earlier than its delay.
Tick ==
    /\ inactivity.clock < MaxTicks
    /\ LET less(t) == IF t > 0 THEN t - 1 ELSE t IN
       inactivity' = [inactivity EXCEPT !.clock = @ + 1,
                                        !.quiet = @ + 1,
                                        !.timeout = less(@),
                                        !.warningTimeout = less(@),
                                        !.toastLeft = less(@)]
    /\ user' = user
    /\ InactivityFrame

\* The callback of the warning timer.
WarningFires ==
    /\ inactivity.warningTimeout = 0
    /\ inactivity' = [inactivity EXCEPT !.warningTimeout = NoTimer,
                                        !.showWarning = TRUE,
                                        !.toastLeft = ToastDuration,
                                        !.warned = TRUE]
    /\ user' = user
    /\ InactivityFrame

\* The callback of the logout timer up to 'await logout()'.  It was set
\* after the warning timer and with a longer delay, so it runs after it.
LogoutFires ==
    /\ inactivity.timeout = 0
    /\ inactivity.warningTimeout = NoTimer
    /\ inactivity' = [inactivity EXCEPT !.timeout = NoTimer,
                                        !.loggingOut = TRUE]
    /\ user' = user
    /\ InactivityFrame

\* logout() has settled: setUser(null), the effect clears the timers, and
\* the page is replaced by /login.
LogoutDone ==
    /\ inactivity.loggingOut
    /\ user' = 0
    /\ inactivity' = [SignedOut EXCEPT !.clock = inactivity.clock]
    /\ InactivityFrame

InactivityNext ==
    \/ \E u \in Users : SignIn(u)
    \/ SignOut
    \/ handleActivity
    \/ Tick
    \/ WarningFires
    \/ LogoutFires
    \/ LogoutDone

InactivitySpec == InactivityInit /\ [][InactivityNext]_vars

\* The warning is on screen: the state the hook returns, or the toast.
WarningVisible == inactivity.showWarning \/ inactivity.toastLeft > 0

\* The logout timer's callback starts in this step.
LogsOut == ~inactivity.loggingOut /\ inactivity'.loggingOut

\* An activity event is handled in this step.
Active == user # 0 /\ user' = user /\ inactivity'.quiet = 0

\* C30: the automatic logout starts only after a whole period without
\* activity and after the warning of that period; an activity event leaves
\* both timers pending with their whole delay and no warning on screen; with
\* nobody signed in no timer is pending.
InactivityOrder ==
    [][/\ LogsOut
            => /\ inactivity.quiet >= InactivityTimeout
               /\ inactivity.warned
       /\ Active
            => /\ inactivity'.timeout = InactivityTimeout
               /\ inactivity'.warningTimeout
                    = InactivityTimeout - WarningTime
               /\ ~WarningVisible'
       /\ user' = 0
            => /\ inactivity'.timeout = NoTimer
               /\ inactivity'.warningTimeout = NoTimer
      ]_vars

====
